---- MODULE Spec2Model ----
(***************************************************************************)
(* Model of the Telegram digest scripts                                    *)
(*   src/scripts/digest/telegram-digest-public.py  (scrape variant)        *)
(*   src/scripts/digest/telegram-digest.py         (client variant)        *)
(*                                                                         *)
(* Strings.  A Python str is represented by the sequence of its maximal    *)
(* runs of equal characters: "aa  b" is <<R("a",2), R(" ",2), R("b",1)>>.  *)
(* The representation is canonical (no empty run, neighbouring runs have   *)
(* different characters), so two strings are equal iff their run           *)
(* sequences are equal, and the program's constants (500, 4096) keep       *)
(* their values.                                                           *)
(***************************************************************************)
EXTENDS Integers, Sequences, FiniteSets, TLC

VARIABLES
    \* ---- clean_text applied to one input
    cl_pc, cl_in, cl_out,
    \* ---- send_to_telegram's chunking applied to one text
    ck_pc, ck_variant, ck_text, ck_chunks,
    \* ---- collect_messages (both variants)
    variant,        \* "scrape" (telegram-digest-public.py) or "client"
    config,         \* the dict load_config() returned
    pc,             \* "idle", "loop", "paging", "done", "raised"
    ci,             \* 1-based position of the for-loop over channels
    result,         \* result: channel name -> list of cleaned strings
    total_chars,
    channel,        \* scrape_channel's argument (scrape variant)
    page, all_messages, seen_ids, before,   \* scrape_channel's locals
    \* ---- history, not read by the program
    origin,         \* for each entry of result, the unit it was made from
    visited,        \* positions of the channels the source was asked about
    rejected_at,    \* position of the first channel with a budget rejection, or 0
    failed,         \* positions of the channels that failed
    last,           \* the budget enforcer's last channel: total before it, lengths
                    \* of the cleaned messages offered to it and of those accepted
    old_seen,       \* TRUE once the cutoff test has met a unit older than cutoff
    returned,       \* TRUE once collect_messages has returned result
    \* ---- history of scrape_channel's fetches (specification SpecDeep)
    sc_last,        \* the last fetch_page call: what its requests did, the page
    sc_ids,         \* identities on the pages received before the last fetch
    sc_dates,       \* the dates of all_messages after the last fetch
    sc_paused,      \* TRUE when time.sleep was called since the last request
    sc_requested,   \* TRUE once a request was made in this run
    \* ---- main / run_digest / send_to_telegram (specification SpecRun)
    rn_pc,          \* "main", "collect", "summarize", "send", "sending",
                    \* "returned", "exit1", "raised"
    rn_variant,     \* which script runs
    rn_argv,        \* the command-line flags
    rn_env,         \* which settings are present (env vars, config file)
    rn_mode,        \* "none", "help", "auth", "preview", "dry_run", "full"
    rn_net,         \* the external services called so far
    rn_summ,        \* summarize: "none", "ok", "failed"
    rn_text,        \* what send_to_telegram was given: "none", "notice", "summary"
    rn_chunks,      \* the list chunks of send_to_telegram
    rn_sent,        \* the urlopen calls made: [k |-> index of the chunk, res |-> outcome]
    \* ---- the budget loops of the two variants on one input (SpecBudget)
    bp_in,          \* the input: the channels with their messages, maxTotalTokens
    bp_done,        \* the variants that have run on the input
    bp_scrape,      \* what the scrape variant's loop returned: result, total_chars
    bp_client       \* what the client variant's loop returned

cl_vars == <<cl_pc, cl_in, cl_out>>
ck_vars == <<ck_pc, ck_variant, ck_text, ck_chunks>>
co_vars == <<variant, config, pc, ci, result, total_chars, channel, page,
             all_messages, seen_ids, before, origin, visited, rejected_at,
             failed, last, old_seen, returned>>
sc_vars == <<sc_last, sc_ids, sc_dates, sc_paused, sc_requested>>
bp_vars == <<bp_in, bp_done, bp_scrape, bp_client>>
rn_vars == <<rn_pc, rn_variant, rn_argv, rn_env, rn_mode, rn_net, rn_summ,
             rn_text, rn_chunks, rn_sent>>

(***************************************************************************)
(* Program constants                                                       *)
(***************************************************************************)
DEFAULT_LOOKBACK_HOURS == 24
MAX_MSG_LENGTH == 500
MIN_MSG_LENGTH == 20
TG_MAX_MESSAGE_LENGTH == 4096
MAX_PAGES_PER_CHANNEL == 5
DEDUP_PREFIX == 100
CHARS_PER_TOKEN == 4

(***************************************************************************)
(* Strings as run sequences                                                *)
(***************************************************************************)
R(c, n) == [c |-> c, n |-> n]

NL == "\n"
EmptyStr == <<>>

\* str.isspace() on the characters of the model
IsSpaceChar(c) == c \in {" ", NL}

\* the characters the regex class \w matches
IsWordChar(c) == c \in {"a", "A", "b", "B", "o", "O", "t", "T", "x", "h"}

\* str.lower() on one character
LowerChar(c) ==
    CASE c = "A" -> "a"
      [] c = "B" -> "b"
      [] c = "O" -> "o"
      [] c = "T" -> "t"
      [] OTHER -> c

\* the canonical form of a run sequence: empty runs dropped, neighbours merged
RECURSIVE Norm(_)
Norm(s) ==
    IF s = <<>> THEN <<>>
    ELSE LET h == Head(s)
             t == Norm(Tail(s))
         IN  IF h.n = 0 THEN t
             ELSE IF t # <<>> /\ Head(t).c = h.c
                  THEN <<R(h.c, h.n + Head(t).n)>> \o Tail(t)
                  ELSE <<h>> \o t

\* len(s)
RECURSIVE StrLen(_)
StrLen(s) == IF s = <<>> THEN 0 ELSE Head(s).n + StrLen(Tail(s))

\* s + t
Concat(s, t) == Norm(s \o t)

\* s[:k]
RECURSIVE Take(_, _)
Take(s, k) ==
    IF s = <<>> \/ k <= 0 THEN <<>>
    ELSE IF Head(s).n <= k
         THEN <<Head(s)>> \o Take(Tail(s), k - Head(s).n)
         ELSE <<R(Head(s).c, k)>>

\* s[k:]
RECURSIVE Drop(_, _)
Drop(s, k) ==
    IF s = <<>> THEN <<>>
    ELSE IF k <= 0 THEN s
    ELSE IF Head(s).n <= k
         THEN Drop(Tail(s), k - Head(s).n)
         ELSE <<R(Head(s).c, Head(s).n - k)>> \o Tail(s)

\* s.lstrip(), s.rstrip(), s.strip()
RECURSIVE LStrip(_)
LStrip(s) ==
    IF s # <<>> /\ IsSpaceChar(Head(s).c) THEN LStrip(Tail(s)) ELSE s

RECURSIVE RStrip(_)
RStrip(s) ==
    IF s # <<>> /\ IsSpaceChar(s[Len(s)].c)
    THEN RStrip(SubSeq(s, 1, Len(s) - 1))
    ELSE s

Strip(s) == RStrip(LStrip(s))

\* s.lower()
Lower(s) == Norm([i \in 1..Len(s) |-> R(LowerChar(s[i].c), s[i].n)])

\* the longest run of the character ch in s (0 when ch does not occur)
RECURSIVE MaxRun(_, _)
MaxRun(s, ch) ==
    IF s = <<>> THEN 0
    ELSE LET m == MaxRun(Tail(s), ch)
         IN  IF Head(s).c = ch /\ Head(s).n > m THEN Head(s).n ELSE m

(***************************************************************************)
(* clean_text                                                              *)
(***************************************************************************)
\* index of the last run of the word (\w+) that starts at run i; i-1 if none
RECURSIVE WordEnd(_, _)
WordEnd(s, i) ==
    IF i <= Len(s) /\ IsWordChar(s[i].c) THEN WordEnd(s, i + 1) ELSE i - 1

\* Does @\w+bot\b (IGNORECASE) match at the last "@" of run i?  \w+ is greedy
\* and \b needs a non-word character (or the end) after "bot", so the match is
\* the whole word after the "@", which must end in "bot" and have >= 4 letters.
BotMatchAt(s, i) ==
    LET j == WordEnd(s, i + 1)
    IN  /\ s[i].c = "@"
        /\ j >= i + 3
        /\ LowerChar(s[j].c) = "t" /\ s[j].n = 1
        /\ LowerChar(s[j - 1].c) = "o" /\ s[j - 1].n = 1
        /\ LowerChar(s[j - 2].c) = "b"
        /\ (j - 2 > i + 1 \/ s[j - 2].n >= 2)

RECURSIVE SubBot(_, _)
SubBot(s, i) ==
    IF i > Len(s) THEN <<>>
    ELSE IF BotMatchAt(s, i)
         THEN <<R("@", s[i].n - 1)>> \o SubBot(s, WordEnd(s, i + 1) + 1)
         ELSE <<s[i]>> \o SubBot(s, i + 1)

\* re.sub(r"@\w+bot\b", "", text, flags=re.IGNORECASE)
RemoveBotMentions(s) == Norm(SubBot(s, 1))

\* re.sub(r"\n{3,}", "\n\n", text)
CollapseNewlines(s) ==
    [i \in 1..Len(s) |-> IF s[i].c = NL /\ s[i].n >= 3 THEN R(NL, 2) ELSE s[i]]

\* re.sub(r" {2,}", " ", text)
CollapseSpaces(s) ==
    [i \in 1..Len(s) |-> IF s[i].c = " " /\ s[i].n >= 2 THEN R(" ", 1) ELSE s[i]]

Ellipsis == <<R(".", 3)>>

\* if len(text) > MAX_MSG_LENGTH: text = text[:MAX_MSG_LENGTH] + "..."
Truncate(s) ==
    IF StrLen(s) > MAX_MSG_LENGTH
    THEN Concat(Take(s, MAX_MSG_LENGTH), Ellipsis)
    ELSE s

clean_text(text) ==
    Strip(Truncate(CollapseSpaces(CollapseNewlines(RemoveBotMentions(text)))))

(***************************************************************************)
(* send_to_telegram: the chunking of header + text                         *)
(***************************************************************************)
\* text.split("\n"): the lines of s, as strings without newlines
RECURSIVE SplitFrom(_, _, _)
SplitFrom(s, i, cur) ==
    IF i > Len(s) THEN <<cur>>
    ELSE IF s[i].c = NL
         THEN <<cur>> \o [k \in 1..(s[i].n - 1) |-> EmptyStr]
                      \o SplitFrom(s, i + 1, EmptyStr)
         ELSE SplitFrom(s, i + 1, cur \o <<s[i]>>)

SplitLines(s) == SplitFrom(s, 1, EmptyStr)

\* header = f"<b>Public Channel Digest - {today}</b>\n\n"   (scrape variant)
\* header = f"<b>Channel Digest - {today}</b>\n\n"          (client variant)
\* Its 41 resp. 34 characters before the two newlines are written as a run
\* of the letter "h", which no summary text of the model contains.
Header(v) ==
    IF v = "scrape" THEN <<R("h", 41), R(NL, 2)>>
    ELSE <<R("h", 34), R(NL, 2)>>

\* mutant of ChunkStep: the line that closes a chunk is not put in the next one
ChunkStepDropLine(st, line) ==
    IF StrLen(st.current) + StrLen(line) + 1 > TG_MAX_MESSAGE_LENGTH
    THEN [chunks |-> Append(st.chunks, st.current), current |-> EmptyStr]
    ELSE [chunks |-> st.chunks,
          current |-> Concat(Concat(st.current, line), <<R(NL, 1)>>)]

\* one iteration of "for line in text.split("\n")": st = [chunks, current]
ChunkStep(st, line) ==
    LET flush == StrLen(st.current) + StrLen(line) + 1 > TG_MAX_MESSAGE_LENGTH
        chunks1 == IF flush THEN Append(st.chunks, st.current) ELSE st.chunks
        current1 == IF flush THEN EmptyStr ELSE st.current
    IN  [chunks |-> chunks1,
         current |-> Concat(Concat(current1, line), <<R(NL, 1)>>)]

RECURSIVE ChunkLoop(_, _, _)
ChunkLoop(st, lines, i) ==
    IF i > Len(lines) THEN st
    ELSE ChunkLoop(ChunkStep(st, lines[i]), lines, i + 1)

\* the list "chunks" that send_to_telegram builds for text
Chunks(header, text) ==
    LET full_text == Concat(header, text)
    IN  IF StrLen(full_text) <= TG_MAX_MESSAGE_LENGTH
        THEN <<full_text>>
        ELSE LET st == ChunkLoop([chunks |-> <<>>, current |-> header],
                                 SplitLines(text), 1)
             IN  IF Strip(st.current) # EmptyStr
                 THEN Append(st.chunks, st.current)
                 ELSE st.chunks

(***************************************************************************)
(* Message units, message filtering and the per-channel collectors         *)
(*                                                                         *)
(* A unit is what the source delivers for one message: a Telethon message  *)
(* (client variant) or a .tgme_widget_message element (scrape variant):    *)
(*   [id, date, text, kind]; date in hours; kind "text" or a media kind.   *)
(***************************************************************************)
\* Python's None where a str is expected (no string is written this way), and
\* where an int is expected (identities and dates are not negative)
NoneStr == <<[c |-> "None", n |-> 0]>>
NoneInt == 0 - 1

\* datetime.now(timezone.utc), in hours
Now == 48

NoiseKinds ==
    {"service", "sticker", "voice", "video_note", "gif", "contact", "geo",
     "geo_live", "dice"}

is_noise(message) == message.kind \in NoiseKinds

\* text = message.text or ""; return text.strip() if text.strip() else None
extract_text(message) ==
    IF Strip(message.text) # EmptyStr THEN Strip(message.text) ELSE NoneStr

\* re.sub(r"\s+", " ", s): every stretch of whitespace becomes one space
CollapseWhitespace(s) ==
    LET spaced == Norm([k \in 1..Len(s) |->
                          IF IsSpaceChar(s[k].c) THEN R(" ", 1) ELSE s[k]])
    IN  [k \in 1..Len(spaced) |->
           IF spaced[k].c = " " THEN R(" ", 1) ELSE spaced[k]]

\* scrape: text_key = re.sub(r"\s+", " ", text[:100]).strip().lower()
ScrapeTextKey(text) == Lower(Strip(CollapseWhitespace(Take(text, DEDUP_PREFIX))))

\* mutant of ClientTextKey: the key is not lowercased
ClientTextKeyNoLower(text) == Take(text, DEDUP_PREFIX)

\* client: text_key = text[:100].lower()
ClientTextKey(text) == Lower(Take(text, DEDUP_PREFIX))

\* token_limit = max_tokens * 4 (maxTotalTokens is a JSON number num/den)
TokenLimit(cfg) == (cfg.maxTotalTokens.num * CHARS_PER_TOKEN) \div cfg.maxTotalTokens.den

\* cutoff = datetime.now(timezone.utc) - timedelta(hours=lookback)
Cutoff(cfg) == Now - cfg.lookbackHours

\* mutant of BeforeCutoff: the comparison is the wrong way round
BeforeCutoffReversed(date, cutoff) == date > cutoff

\* if msg_date < cutoff / if msg.date < cutoff
BeforeCutoff(date, cutoff) == date < cutoff

\* mutant of OverBudget: the message's own length is not counted
OverBudgetNoAdd(total, msg, limit) == total > limit

\* mutant of OverBudget: a message that reaches the ceiling exactly is rejected
OverBudgetStrict(total, msg, limit) == total + StrLen(msg) >= limit

\* if total_chars + len(msg) > token_limit
OverBudget(total, msg, limit) == total + StrLen(msg) > limit

\* if len(text) < MIN_MSG_LENGTH
TooShort(text) == StrLen(text) < MIN_MSG_LENGTH

(***************************************************************************)
(* Scrape variant: parse_messages and scrape_channel                       *)
(***************************************************************************)
\* A page is [unavailable, widgets]; a widget is a unit whose id is NoneInt
\* when data-post is missing or not a number, whose date is NoneInt when the
\* time element is missing or malformed.
RECURSIVE ParseWidgets(_, _, _)
ParseWidgets(widgets, cutoff, acc) ==
    IF widgets = <<>> THEN acc
    ELSE LET w == Head(widgets)
             rest == Tail(widgets)
         IN  IF w.id = NoneInt THEN ParseWidgets(rest, cutoff, acc)
             ELSE LET oldest == IF acc.oldest_id = NoneInt \/ w.id < acc.oldest_id
                                THEN w.id ELSE acc.oldest_id
                      acc1 == [acc EXCEPT !.oldest_id = oldest]
                  IN  IF w.date = NoneInt THEN ParseWidgets(rest, cutoff, acc1)
                      ELSE IF BeforeCutoff(w.date, cutoff)
                           THEN ParseWidgets(rest, cutoff, acc1)
                      ELSE IF Strip(w.text) = EmptyStr
                           THEN ParseWidgets(rest, cutoff, acc1)
                      ELSE ParseWidgets(rest, cutoff,
                               [acc1 EXCEPT !.messages =
                                   Append(@, [w EXCEPT !.text = Strip(w.text)])])

\* history: the cutoff test of parse_messages meets a widget older than cutoff
OldWidget(html, cutoff) ==
    \E k \in 1..Len(html.widgets) :
        /\ html.widgets[k].id # NoneInt /\ html.widgets[k].date # NoneInt
        /\ html.widgets[k].date < cutoff

\* parse_messages(html, channel, cutoff) -> (messages, oldest_id)
parse_messages(html, cutoff) ==
    IF html.unavailable THEN [messages |-> <<>>, oldest_id |-> NoneInt]
    ELSE ParseWidgets(html.widgets, cutoff,
                      [messages |-> <<>>, oldest_id |-> NoneInt])

\* the loop "for msg in messages: if msg["id"] not in seen_ids: ..."
RECURSIVE AddNew(_, _)
AddNew(messages, acc) ==
    IF messages = <<>> THEN acc
    ELSE LET m == Head(messages)
         IN  IF m.id \in acc.seen_ids THEN AddNew(Tail(messages), acc)
             ELSE AddNew(Tail(messages),
                         [seen_ids |-> acc.seen_ids \cup {m.id},
                          all_messages |-> Append(acc.all_messages, m),
                          new_count |-> acc.new_count + 1])

\* all_messages.sort(key=lambda m: m["date"], reverse=True)  (a stable sort)
RECURSIVE InsertByDate(_, _)
InsertByDate(sorted, m) ==
    IF sorted = <<>> THEN <<m>>
    ELSE IF Head(sorted).date >= m.date
         THEN <<Head(sorted)>> \o InsertByDate(Tail(sorted), m)
         ELSE <<m>> \o sorted

RECURSIVE SortByDateDesc(_, _)
SortByDateDesc(ms, sorted) ==
    IF ms = <<>> THEN sorted
    ELSE SortByDateDesc(Tail(ms), InsertByDate(sorted, Head(ms)))

\* the "Filter and clean" loop of scrape_channel: acc = [result, seen_texts];
\* an entry of result is [text |-> cleaned, src |-> the message]
RECURSIVE FilterAndClean(_, _)
FilterAndClean(ms, acc) ==
    IF ms = <<>> THEN acc.result
    ELSE LET msg == Head(ms)
             text == msg.text
             text_key == ScrapeTextKey(text)
             cleaned == clean_text(text)
         IN  IF TooShort(text) THEN FilterAndClean(Tail(ms), acc)
             ELSE IF text_key \in acc.seen_texts THEN FilterAndClean(Tail(ms), acc)
             ELSE FilterAndClean(Tail(ms),
                    [result |-> IF cleaned # EmptyStr
                                THEN Append(acc.result, [text |-> cleaned, src |-> msg])
                                ELSE acc.result,
                     seen_texts |-> acc.seen_texts \cup {text_key}])

\* mutant of FirstN: the slice keeps the whole list
FirstNAll(xs, k) == xs

\* a Python list slice xs[:k]
FirstN(xs, k) == SubSeq(xs, 1, IF k < Len(xs) THEN k ELSE Len(xs))

\* mutant of ScrapeTail: all_messages is not sorted before the slice
ScrapeTailUnsorted(all, max_messages) ==
    FilterAndClean(FirstN(all, max_messages),
                   [result |-> <<>>, seen_texts |-> {}])

\* scrape_channel after its pagination loop
ScrapeTail(all, max_messages) ==
    FilterAndClean(FirstN(SortByDateDesc(all, <<>>), max_messages),
                   [result |-> <<>>, seen_texts |-> {}])

\* "Apply token budget" in collect_messages (scrape variant):
\* acc = [budget_messages, total_chars, rejected]
RECURSIVE ApplyBudget(_, _, _)
ApplyBudget(messages, acc, limit) ==
    IF messages = <<>> THEN acc
    ELSE LET msg == Head(messages)
         IN  IF OverBudget(acc.total_chars, msg.text, limit)
             THEN [acc EXCEPT !.rejected = TRUE]
             ELSE ApplyBudget(Tail(messages),
                              [acc EXCEPT !.budget_messages = Append(@, msg),
                                          !.total_chars = @ + StrLen(msg.text)],
                              limit)

\* mutant of ScrapeBudget: every channel has the whole budget for itself
ScrapeBudgetPerChannel(messages, total, limit) ==
    LET b == ApplyBudget(messages,
                         [budget_messages |-> <<>>, total_chars |-> 0,
                          rejected |-> FALSE],
                         limit)
    IN  [b EXCEPT !.total_chars = @ + total]

\* collect_messages (scrape variant): budget_messages = [] and the loop
\* "for msg in messages" on the running total
ScrapeBudget(messages, total, limit) ==
    ApplyBudget(messages,
                [budget_messages |-> <<>>, total_chars |-> total,
                 rejected |-> FALSE],
                limit)

\* mutant of fetch_page: a rate-limited request is not retried
fetch_pageNoRetry(o1, o2) ==
    [ok |-> o1 = "ok", requests |-> 1, retry_sleep |-> FALSE]

\* fetch_page: o1 and o2 are what the first and the second client.get do:
\* "ok", "429", "http_error" (raise_for_status raises) or "request_error".
\* The second request is made only after a 429.
fetch_page(o1, o2) ==
    [ok |-> o1 = "ok" \/ (o1 = "429" /\ o2 = "ok"),
     requests |-> IF o1 = "429" THEN 2 ELSE 1,
     retry_sleep |-> o1 = "429"]

(***************************************************************************)
(* Client variant: the body of "async for msg in client.iter_messages"     *)
(***************************************************************************)
\* acc = [messages, seen_texts, total_chars, broke, rejected]
RECURSIVE ClientIterate(_, _, _, _)
ClientIterate(msgs, acc, cutoff, limit) ==
    IF msgs = <<>> THEN acc
    ELSE LET msg == Head(msgs)
             rest == Tail(msgs)
             text == extract_text(msg)
             text_key == ClientTextKey(text)
             cleaned == clean_text(text)
         IN  IF BeforeCutoff(msg.date, cutoff) THEN [acc EXCEPT !.broke = TRUE]
             ELSE IF is_noise(msg) THEN ClientIterate(rest, acc, cutoff, limit)
             ELSE IF text = NoneStr \/ text = EmptyStr
                  THEN ClientIterate(rest, acc, cutoff, limit)
             ELSE IF TooShort(text) THEN ClientIterate(rest, acc, cutoff, limit)
             ELSE IF text_key \in acc.seen_texts
                  THEN ClientIterate(rest, acc, cutoff, limit)
             ELSE LET acc1 == [acc EXCEPT !.seen_texts = @ \cup {text_key}]
                  IN  IF cleaned = EmptyStr THEN ClientIterate(rest, acc1, cutoff, limit)
                      ELSE IF OverBudget(acc1.total_chars, cleaned, limit)
                           THEN [acc1 EXCEPT !.broke = TRUE, !.rejected = TRUE]
                      ELSE ClientIterate(rest,
                             [acc1 EXCEPT
                                !.messages = Append(@, [text |-> cleaned, src |-> msg]),
                                !.total_chars = @ + StrLen(cleaned)],
                             cutoff, limit)

\* channel_name = getattr(entity, "title", None) or getattr(entity, "username", None)
\*                or str(channel_id)
ChannelName(entity, channel_id) ==
    IF entity.title # NoneStr /\ entity.title # EmptyStr THEN entity.title
    ELSE IF entity.username # NoneStr /\ entity.username # EmptyStr THEN entity.username
    ELSE channel_id

\* channel = raw_channel.lstrip("@").strip()
ScrapeChannelName(raw_channel) ==
    Strip(IF raw_channel # <<>> /\ Head(raw_channel).c = "@"
          THEN Tail(raw_channel) ELSE raw_channel)

\* result[name] = entries  (a dict assignment: a new key or an overwrite)
Put(map, name, value) ==
    [k \in DOMAIN map \cup {name} |-> IF k = name THEN value ELSE map[k]]

Lengths(entries) == [k \in 1..Len(entries) |-> StrLen(entries[k].text)]

NoLast == [before |-> 0, offered |-> <<>>, accepted |-> <<>>]

Texts(entries) == [k \in 1..Len(entries) |-> entries[k].text]
Sources(entries) == [k \in 1..Len(entries) |-> entries[k].src]

(***************************************************************************)
(* Specification SpecClean: clean_text applied to an arbitrary input       *)
(***************************************************************************)
MaxCleanSegs == 3

CleanSegs ==
    { <<R(c, n)>> : c \in {"a", " ", NL}, n \in 1..3 }
    \cup { <<R("x", n)>> : n \in {499, 500, 501} }
    \cup { <<R("@", 1), R("a", 1), R("b", 1), R("o", 1), R("t", 1)>>,
           <<R("@", 1), R("x", 1), R("B", 1), R("O", 1), R("T", 1)>>,
           <<R("@", 1), R("b", 1), R("o", 1), R("t", 1)>> }

RECURSIVE Flatten(_)
Flatten(ss) == IF ss = <<>> THEN <<>> ELSE Head(ss) \o Flatten(Tail(ss))

StringsOver(segs, maxSegs) ==
    UNION { { Norm(Flatten(f)) : f \in [1..k -> segs] } : k \in 0..maxSegs }

CleanInputs == StringsOver(CleanSegs, MaxCleanSegs)

ClIdle == cl_pc = "idle" /\ cl_in = EmptyStr /\ cl_out = EmptyStr
CkIdle ==
    ck_pc = "idle" /\ ck_variant = "scrape" /\ ck_text = EmptyStr /\ ck_chunks = <<>>

CoIdle ==
    /\ variant = "scrape" /\ config = <<>> /\ pc = "idle" /\ ci = 0
    /\ result = <<>> /\ total_chars = 0 /\ channel = EmptyStr
    /\ page = 0 /\ all_messages = <<>> /\ seen_ids = {} /\ before = NoneInt
    /\ origin = <<>> /\ visited = {} /\ rejected_at = 0 /\ failed = {}
    /\ last = NoLast /\ old_seen = FALSE
    /\ returned = FALSE

\* no fetch_page call has been made
NoFetch ==
    [o |-> <<"none", "none">>, html |-> [unavailable |-> FALSE, widgets |-> <<>>],
     page |-> 0, requests |-> 0, retry_sleep |-> FALSE, ok |-> FALSE, n |-> 0,
     first |-> FALSE, paused |-> FALSE]

ScIdle ==
    /\ sc_last = NoFetch /\ sc_ids = {} /\ sc_dates = <<>>
    /\ sc_paused = FALSE /\ sc_requested = FALSE

NoOutcome == [result |-> <<>>, total_chars |-> 0]

BpIdle ==
    /\ bp_in = <<>> /\ bp_done = {}
    /\ bp_scrape = NoOutcome /\ bp_client = NoOutcome

RnIdle ==
    /\ rn_pc = "idle" /\ rn_variant = "scrape" /\ rn_argv = {} /\ rn_env = <<>>
    /\ rn_mode = "none" /\ rn_net = {} /\ rn_summ = "none" /\ rn_text = "none"
    /\ rn_chunks = <<>> /\ rn_sent = <<>>

CleanInit ==
    /\ cl_pc = "in"
    /\ cl_in \in CleanInputs
    /\ cl_out = EmptyStr
    /\ CkIdle
    /\ CoIdle
    /\ ScIdle
    /\ RnIdle /\ BpIdle

\* cleaned = clean_text(text)
CleanApply ==
    /\ cl_pc = "in"
    /\ cl_out' = clean_text(cl_in)
    /\ cl_pc' = "out"
    /\ UNCHANGED <<cl_in, ck_vars, co_vars, sc_vars, rn_vars, bp_vars>>

CleanNext == CleanApply

vars == <<cl_vars, ck_vars, co_vars, sc_vars, rn_vars, bp_vars>>

SpecClean == CleanInit /\ [][CleanNext]_vars

(***************************************************************************)
(* Specification SpecChunk: send_to_telegram's chunking of a summary       *)
(***************************************************************************)
MaxChunkSegs == 4

ChunkSegs ==
    { <<R("a", n)>> : n \in {1, 2000, 4050, 4096, 9000} }
    \cup { <<R(" ", n)>> : n \in {1, 4090} }
    \cup { <<R(NL, n)>> : n \in {1, 2} }

ChunkInputs == StringsOver(ChunkSegs, MaxChunkSegs)

ChunkInit ==
    /\ ck_pc = "in"
    /\ ck_variant \in {"scrape", "client"}
    /\ ck_text \in ChunkInputs
    /\ ck_chunks = <<>>
    /\ ClIdle
    /\ CoIdle
    /\ ScIdle
    /\ RnIdle /\ BpIdle

\* the chunking part of send_to_telegram(text)
ChunkApply ==
    /\ ck_pc = "in"
    /\ ck_chunks' = Chunks(Header(ck_variant), ck_text)
    /\ ck_pc' = "chunked"
    /\ UNCHANGED <<ck_variant, ck_text, cl_vars, co_vars, sc_vars, rn_vars, bp_vars>>

ChunkNext == ChunkApply

SpecChunk == ChunkInit /\ [][ChunkNext]_vars

(***************************************************************************)
(* Specification Spec: collect_messages, both variants                     *)
(***************************************************************************)
MaxChannels == 2
MaxPageLen == 1
MaxIter == 2

TA == <<R("a", 30)>>
TAu == <<R("A", 30)>>
TW2 == <<R("a", 10), R(" ", 2), R("a", 19)>>
TW1 == <<R("a", 10), R(" ", 1), R("a", 19)>>
TX == <<R("x", 20)>>
TBot == <<R("@", 1), R("a", 20), R("b", 1), R("o", 1), R("t", 1)>>
TShort == <<R("a", 5)>>

Unit(id, date, text, kind) == [id |-> id, date |-> date, text |-> text, kind |-> kind]

Units ==
    { Unit(5, 30, TA, "text"),
      Unit(4, 30, TAu, "text"),
      Unit(3, 25, TW2, "text"),
      Unit(2, 24, TW1, "text"),
      Unit(1, 23, TX, "text"),
      Unit(6, 30, TX, "text"),
      Unit(7, 30, TBot, "text"),
      Unit(8, 30, TShort, "text"),
      Unit(9, 30, TA, "sticker") }

SeqsUpTo(S, n) == UNION { [1..k -> S] : k \in 0..n }

Pages ==
    { [unavailable |-> TRUE, widgets |-> <<>>] }
    \cup { [unavailable |-> FALSE, widgets |-> w] : w \in SeqsUpTo(Units, MaxPageLen) }

NoPage == [unavailable |-> FALSE, widgets |-> <<>>]

\* what the two client.get calls of one fetch_page do (the second only after a 429)
Outcomes == {"ok", "429", "http_error", "request_error"}
FetchOutcomes ==
    { <<o1, "none">> : o1 \in Outcomes \ {"429"} } \cup { <<"429", o2>> : o2 \in Outcomes }

RawChannels == { <<R("@", 1), R("a", 1)>>, <<R("b", 1)>>, <<R("@", 1)>> }

Entities ==
    { [title |-> <<R("a", 1)>>, username |-> NoneStr],
      [title |-> NoneStr, username |-> <<R("b", 1)>>],
      [title |-> NoneStr, username |-> NoneStr] }

Configs ==
    [channels : SeqsUpTo(RawChannels, MaxChannels) \ {<<>>},
     lookbackHours : {DEFAULT_LOOKBACK_HOURS},
     maxMessagesPerChannel : {2},
     maxTotalTokens : {[num |-> 25, den |-> 2], [num |-> 15, den |-> 1]}]

Init ==
    /\ variant \in {"scrape", "client"}
    /\ config \in Configs
    /\ pc = "loop"
    /\ ci = 1
    /\ result = <<>>
    /\ total_chars = 0
    /\ channel = EmptyStr
    /\ page = 0 /\ all_messages = <<>> /\ seen_ids = {} /\ before = NoneInt
    /\ origin = <<>> /\ visited = {} /\ rejected_at = 0 /\ failed = {}
    /\ last = NoLast /\ old_seen = FALSE
    /\ returned = FALSE
    /\ ClIdle /\ CkIdle /\ ScIdle /\ RnIdle /\ BpIdle

NumChannels == Len(config.channels)

\* mutant of EndChannel: the channel's list is stored even when it is empty
EndChannelAlways(name, offered, entries, total, rejected) ==
    /\ last' = [before |-> total_chars, offered |-> Lengths(offered),
                accepted |-> Lengths(entries)]
    /\ result' = Put(result, name, Texts(entries))
    /\ origin' = Put(origin, name, Sources(entries))
    /\ total_chars' = total
    /\ rejected_at' = IF rejected_at = 0 /\ rejected THEN ci ELSE rejected_at
    /\ IF total > TokenLimit(config)
       THEN pc' = "done" /\ returned' = TRUE /\ ci' = ci
       ELSE pc' = "loop" /\ returned' = FALSE /\ ci' = ci + 1

\* the end of one iteration of "for ... in channels", given the channel's
\* name, the entries accepted for it and the new running total
EndChannel(name, offered, entries, total, rejected) ==
    /\ last' = [before |-> total_chars, offered |-> Lengths(offered),
                accepted |-> Lengths(entries)]
    /\ result' = IF entries # <<>> THEN Put(result, name, Texts(entries)) ELSE result
    /\ origin' = IF entries # <<>> THEN Put(origin, name, Sources(entries)) ELSE origin
    /\ total_chars' = total
    /\ rejected_at' = IF rejected_at = 0 /\ rejected THEN ci ELSE rejected_at
    /\ IF total > TokenLimit(config)
       THEN pc' = "done" /\ returned' = TRUE /\ ci' = ci
       ELSE pc' = "loop" /\ returned' = FALSE /\ ci' = ci + 1

scrape_locals == <<channel, page, all_messages, seen_ids, before>>
history == <<origin, visited, rejected_at, failed, last, old_seen>>

\* scrape: "if not channel: continue"
ScrapeSkipBlank ==
    /\ pc = "loop" /\ variant = "scrape" /\ ci <= NumChannels
    /\ ScrapeChannelName(config.channels[ci]) = EmptyStr
    /\ ci' = ci + 1
    /\ UNCHANGED <<variant, config, pc, result, total_chars, scrape_locals,
                   history, returned, cl_vars, ck_vars, sc_vars, rn_vars, bp_vars>>

\* collect_messages: "if i > 0: time.sleep(REQUEST_DELAY)", i counted from 0
ChannelSleep(i) == i > 0

\* mutant of PageSleep: no pause between the pages of a channel
PageSleepNever(p) == FALSE

\* scrape_channel: "if page > 0: time.sleep(REQUEST_DELAY)"
PageSleep(p) == p > 0

\* scrape: the pause between channels, then the call of scrape_channel up
\* to its first fetch
ScrapeStart ==
    /\ pc = "loop" /\ variant = "scrape" /\ ci <= NumChannels
    /\ ScrapeChannelName(config.channels[ci]) # EmptyStr
    /\ channel' = ScrapeChannelName(config.channels[ci])
    /\ page' = 0 /\ all_messages' = <<>> /\ seen_ids' = {} /\ before' = NoneInt
    /\ pc' = "paging"
    /\ sc_last' = NoFetch /\ sc_ids' = {} /\ sc_dates' = <<>>
    /\ sc_paused' = (sc_paused \/ ChannelSleep(ci - 1))
    /\ sc_requested' = sc_requested
    /\ UNCHANGED <<variant, config, ci, result, total_chars, history, returned,
                   cl_vars, ck_vars, rn_vars, bp_vars>>

\* mutant of LastPage: the pagination loop has no page limit
LastPageNever(p) == FALSE

\* "for page in range(MAX_PAGES_PER_CHANNEL)": p is the last value of the range
LastPage(p) == p = MAX_PAGES_PER_CHANNEL - 1

\* scrape: one iteration of "for page in range(MAX_PAGES_PER_CHANNEL)" in which
\* the requests of fetch_page do o and, when it succeeds, receive the page
\* html: the fetch, the parse and the stop conditions; when the loop ends, the
\* rest of scrape_channel and of the channel's iteration in collect_messages
ScrapeFetch(html, o) ==
    LET parsed == parse_messages(html, Cutoff(config))
        added == AddNew(parsed.messages,
                        [seen_ids |-> seen_ids, all_messages |-> all_messages,
                         new_count |-> 0])
        max_messages == config.maxMessagesPerChannel
        resp == fetch_page(o[1], o[2])
        stop == \/ ~resp.ok
                \/ (parsed.messages = <<>> /\ page = 0)
                \/ added.new_count = 0
                \/ Len(added.all_messages) >= max_messages
                \/ parsed.oldest_id = NoneInt
                \/ LastPage(page)
        all1 == IF resp.ok THEN added.all_messages ELSE all_messages
        seen1 == IF resp.ok THEN added.seen_ids ELSE seen_ids
        messages == ScrapeTail(all1, max_messages)
        b == ScrapeBudget(messages, total_chars, TokenLimit(config))
    IN  \* no page is received when the fetch failed
        /\ (~resp.ok => html = NoPage)
        /\ failed' = IF ~resp.ok \/ html.unavailable
                     THEN failed \cup {ci} ELSE failed
        /\ old_seen' = (old_seen \/ OldWidget(html, Cutoff(config)))
        /\ IF stop
           THEN \* scrape_channel returns: its locals are gone
                /\ EndChannel(channel, messages, b.budget_messages,
                              b.total_chars, b.rejected)
                /\ channel' = EmptyStr /\ page' = 0 /\ before' = NoneInt
                /\ all_messages' = <<>> /\ seen_ids' = {}
           ELSE /\ page' = page + 1
                /\ before' = parsed.oldest_id
                /\ all_messages' = all1
                /\ seen_ids' = seen1
                /\ UNCHANGED <<pc, ci, result, total_chars, origin,
                               rejected_at, returned, channel, last>>

\* scrape: one fetch of the pagination loop, for the pages of specification Spec
ScrapePage ==
    /\ pc = "paging"
    /\ visited' = visited \cup {ci}
    /\ \E html \in Pages : \E o \in FetchOutcomes : ScrapeFetch(html, o)
    /\ UNCHANGED <<variant, config, cl_vars, ck_vars, sc_vars, rn_vars, bp_vars>>

\* client: iter_messages(entity, limit=max_per_channel, offset_date=None)
\* delivers at most limit messages
IterLimit(cfg) == cfg.maxMessagesPerChannel

\* client: one iteration of "for channel_id in channels" in which iter_messages
\* delivers msgs: get_entity, the iteration over iter_messages, and the end of
\* the channel's iteration
ClientIteration(msgs) ==
    LET it == ClientIterate(msgs,
                            [messages |-> <<>>, seen_texts |-> {},
                             total_chars |-> total_chars, broke |-> FALSE,
                             rejected |-> FALSE],
                            Cutoff(config), TokenLimit(config))
        \* history: what the same loop offers the budget test when nothing
        \* is rejected
        offered == ClientIterate(msgs,
                                 [messages |-> <<>>, seen_texts |-> {},
                                  total_chars |-> 0, broke |-> FALSE,
                                  rejected |-> FALSE],
                                 Cutoff(config),
                                 (Len(msgs) + 1) * (MAX_MSG_LENGTH + 3)).messages
    IN  /\ Len(msgs) <= IterLimit(config)
        /\ \E resolved \in BOOLEAN, entity \in Entities, raises \in BOOLEAN :
             \* the iterator can raise only before it has delivered "limit" items
             /\ (raises => Len(msgs) < IterLimit(config))
             /\ IF ~resolved
                THEN \* except Exception: log.warning(...); continue
                     /\ msgs = <<>> /\ ~raises /\ entity.title = NoneStr
                     /\ entity.username = NoneStr
                     /\ failed' = failed \cup {ci}
                     /\ ci' = ci + 1
                     /\ UNCHANGED <<pc, result, total_chars, origin, rejected_at,
                                    returned, last, old_seen>>
                ELSE IF raises /\ ~it.broke
                THEN \* iter_messages raises: nothing in collect_messages catches it
                     /\ failed' = failed \cup {ci}
                     /\ pc' = "raised"
                     /\ total_chars' = it.total_chars
                     /\ rejected_at' = IF rejected_at = 0 /\ it.rejected
                                       THEN ci ELSE rejected_at
                     /\ UNCHANGED <<ci, result, origin, returned, last, old_seen>>
                ELSE /\ failed' = failed
                     /\ old_seen' = (old_seen \/ (it.broke /\ ~it.rejected))
                     /\ EndChannel(ChannelName(entity, config.channels[ci]),
                                   offered, it.messages, it.total_chars,
                                   it.rejected)

\* client: one channel, for the deliveries of specification Spec
ClientChannel ==
    /\ pc = "loop" /\ variant = "client" /\ ci <= NumChannels
    /\ visited' = visited \cup {ci}
    /\ \E msgs \in SeqsUpTo(Units, MaxIter) : ClientIteration(msgs)
    /\ UNCHANGED <<variant, config, scrape_locals, cl_vars, ck_vars, sc_vars, rn_vars, bp_vars>>

\* the for-loop over channels is exhausted: return result
CollectReturn ==
    /\ pc = "loop" /\ ci > NumChannels
    /\ pc' = "done"
    /\ returned' = TRUE
    /\ UNCHANGED <<variant, config, ci, result, total_chars, scrape_locals,
                   history, cl_vars, ck_vars, sc_vars, rn_vars, bp_vars>>

Next ==
    \/ ScrapeSkipBlank
    \/ ScrapeStart
    \/ ScrapePage
    \/ ClientChannel
    \/ CollectReturn

Spec == Init /\ [][Next]_vars

(***************************************************************************)
(* Specification SpecDeep: collect_messages with a source that has enough  *)
(* messages for the pagination loop to run through all its pages, and with *)
(* the history of scrape_channel's fetches                                 *)
(***************************************************************************)
MaxDeepIter == 3

DeepUnits ==
    { Unit(7, 30, TX, "text"),
      Unit(6, 30, TA, "text"),
      Unit(5, 30, TW2, "text"),
      Unit(4, 30, TAu, "text"),
      Unit(3, 30, TW1, "text"),
      Unit(2, 30, EmptyStr, "text"),     \* a post without text (a photo)
      Unit(1, 23, TX, "text") }          \* a post older than the cutoff

\* pages of one widget, and two pages of two widgets
DeepPages ==
    { [unavailable |-> TRUE, widgets |-> <<>>] }
    \cup { [unavailable |-> FALSE, widgets |-> w] : w \in SeqsUpTo(DeepUnits, 1) }
    \cup { [unavailable |-> FALSE,
            widgets |-> <<Unit(7, 30, TX, "text"), Unit(6, 30, TA, "text")>>],
           [unavailable |-> FALSE,
            widgets |-> <<Unit(5, 30, TW2, "text"), Unit(2, 30, EmptyStr, "text")>>] }

\* one channel with a cap of 2 or of 6 messages, two channels with a cap of 2
DeepConfigs ==
    [channels : { <<<<R("@", 1), R("a", 1)>>>> },
     lookbackHours : {DEFAULT_LOOKBACK_HOURS},
     maxMessagesPerChannel : {2, 6},
     maxTotalTokens : {[num |-> 25, den |-> 1]}]
    \cup
    [channels : { <<<<R("@", 1), R("a", 1)>>, <<R("b", 1)>>>> },
     lookbackHours : {DEFAULT_LOOKBACK_HOURS},
     maxMessagesPerChannel : {2},
     maxTotalTokens : {[num |-> 25, den |-> 1]}]

DeepInit ==
    /\ variant \in {"scrape", "client"}
    /\ config \in DeepConfigs
    /\ pc = "loop"
    /\ ci = 1
    /\ result = <<>>
    /\ total_chars = 0
    /\ channel = EmptyStr
    /\ page = 0 /\ all_messages = <<>> /\ seen_ids = {} /\ before = NoneInt
    /\ origin = <<>> /\ visited = {} /\ rejected_at = 0 /\ failed = {}
    /\ last = NoLast /\ old_seen = FALSE
    /\ returned = FALSE
    /\ ClIdle /\ CkIdle /\ ScIdle /\ RnIdle /\ BpIdle

\* the identities of the widgets of a page (data-post="channel/123")
PageIds(html) ==
    { html.widgets[k].id : k \in 1..Len(html.widgets) } \ {NoneInt}

\* the dates of a list of messages
Dates(ms) == [k \in 1..Len(ms) |-> ms[k].date]

\* scrape: one iteration of the pagination loop (ScrapeFetch) with the history
\* of the fetch: whether time.sleep was called between the previous request
\* and this fetch, what the requests did, what all_messages held afterwards
FetchRecorded(html, o) ==
    LET resp == fetch_page(o[1], o[2])
        all1 == IF resp.ok
                THEN AddNew(parse_messages(html, Cutoff(config)).messages,
                            [seen_ids |-> seen_ids,
                             all_messages |-> all_messages,
                             new_count |-> 0]).all_messages
                ELSE all_messages
    IN  /\ ScrapeFetch(html, o)
        /\ sc_last' = [o |-> o, html |-> html, page |-> page,
                       requests |-> resp.requests,
                       retry_sleep |-> resp.retry_sleep,
                       ok |-> resp.ok, n |-> Len(all1),
                       first |-> ~sc_requested,
                       paused |-> (sc_paused \/ PageSleep(page))]
        /\ sc_ids' = sc_ids \cup PageIds(sc_last.html)
        /\ sc_dates' = Dates(all1)
        /\ sc_paused' = FALSE
        /\ sc_requested' = TRUE

\* scrape: one fetch of the pagination loop, for the pages of SpecDeep
DeepPage ==
    /\ pc = "paging"
    /\ visited' = visited \cup {ci}
    /\ \E html \in DeepPages : \E o \in FetchOutcomes : FetchRecorded(html, o)
    /\ UNCHANGED <<variant, config, cl_vars, ck_vars, rn_vars, bp_vars>>

\* client: one channel, for the deliveries of SpecDeep
DeepClientChannel ==
    /\ pc = "loop" /\ variant = "client" /\ ci <= NumChannels
    /\ visited' = visited \cup {ci}
    /\ \E msgs \in SeqsUpTo(DeepUnits, MaxDeepIter) : ClientIteration(msgs)
    /\ UNCHANGED <<variant, config, scrape_locals, cl_vars, ck_vars, sc_vars, rn_vars, bp_vars>>

DeepNext ==
    \/ ScrapeStart
    \/ DeepPage
    \/ DeepClientChannel
    \/ CollectReturn

SpecDeep == DeepInit /\ [][DeepNext]_vars

(***************************************************************************)
(* Specification SpecPaced: the scrape variant's collect_messages with     *)
(* messages of different dates, pages of two messages in either order,     *)
(* blank channel names, and the history of the pauses                      *)
(***************************************************************************)
MaxPacedChannels == 2

PacedUnits ==
    { Unit(13, 40, TX, "text"),
      Unit(12, 35, TA, "text"),
      Unit(11, 30, TW1, "text") }

\* the unavailable page, pages of at most one message, and pages of two
\* messages, the older first or the newer first
PacedPages ==
    { [unavailable |-> TRUE, widgets |-> <<>>] }
    \cup { [unavailable |-> FALSE, widgets |-> w] : w \in SeqsUpTo(PacedUnits, 1) }
    \cup { [unavailable |-> FALSE, widgets |-> w] :
             w \in { v \in PacedUnits \X PacedUnits : v[2].date > v[1].date } }
    \cup { [unavailable |-> FALSE,
            widgets |-> <<Unit(13, 40, TX, "text"), Unit(12, 35, TA, "text")>>] }

PacedConfigs ==
    [channels : SeqsUpTo(RawChannels, MaxPacedChannels) \ {<<>>},
     lookbackHours : {DEFAULT_LOOKBACK_HOURS},
     maxMessagesPerChannel : {1, 2},
     maxTotalTokens : {[num |-> 25, den |-> 1]}]

PacedInit ==
    /\ variant = "scrape"
    /\ config \in PacedConfigs
    /\ pc = "loop"
    /\ ci = 1
    /\ result = <<>>
    /\ total_chars = 0
    /\ channel = EmptyStr
    /\ page = 0 /\ all_messages = <<>> /\ seen_ids = {} /\ before = NoneInt
    /\ origin = <<>> /\ visited = {} /\ rejected_at = 0 /\ failed = {}
    /\ last = NoLast /\ old_seen = FALSE
    /\ returned = FALSE
    /\ ClIdle /\ CkIdle /\ ScIdle /\ RnIdle /\ BpIdle

\* scrape: one fetch of the pagination loop, for the pages of SpecPaced
PacedPage ==
    /\ pc = "paging"
    /\ visited' = visited \cup {ci}
    /\ \E html \in PacedPages : \E o \in FetchOutcomes : FetchRecorded(html, o)
    /\ UNCHANGED <<variant, config, cl_vars, ck_vars, rn_vars, bp_vars>>

PacedNext ==
    \/ ScrapeSkipBlank
    \/ ScrapeStart
    \/ PacedPage
    \/ CollectReturn

SpecPaced == PacedInit /\ [][PacedNext]_vars

(***************************************************************************)
(* Specification SpecBudget: the loops over the channels of the two        *)
(* collect_messages, as functions of what the source delivers, run on the  *)
(* same input                                                              *)
(***************************************************************************)
MaxBudgetChannels == 2
MaxBudgetMsgs == 2

\* messages that both variants keep as they are: in range, no noise, long
\* enough, unchanged by clean_text
BudgetUnits ==
    { Unit(1, 30, TX, "text"),
      Unit(2, 30, TA, "text"),
      Unit(3, 30, TW1, "text") }

\* a channel of the input: the key it is stored under and the messages the
\* source delivers for it
BudgetChannels ==
    [name : { <<R("a", 1)>>, <<R("b", 1)>> },
     units : SeqsUpTo(BudgetUnits, MaxBudgetMsgs)]

BudgetInputs ==
    [channels : SeqsUpTo(BudgetChannels, MaxBudgetChannels) \ {<<>>},
     maxTotalTokens : {[num |-> 25, den |-> 2], [num |-> 15, den |-> 1],
                       [num |-> 25, den |-> 1]}]

\* scrape variant: the body of "for i, raw_channel in enumerate(channels)"
\* from the call of scrape_channel on, for the channels k, k+1, ...;
\* acc = [result, total_chars]
RECURSIVE ScrapeCollect(_, _, _, _)
ScrapeCollect(chs, k, acc, limit) ==
    IF k > Len(chs) THEN acc
    ELSE LET messages == ScrapeTail(chs[k].units, MaxBudgetMsgs)
             b == ScrapeBudget(messages, acc.total_chars, limit)
             acc1 == [result |-> IF b.budget_messages # <<>>
                                 THEN Put(acc.result, chs[k].name,
                                          Texts(b.budget_messages))
                                 ELSE acc.result,
                      total_chars |-> b.total_chars]
         IN  IF b.total_chars > limit THEN acc1
             ELSE ScrapeCollect(chs, k + 1, acc1, limit)

\* client variant: the body of "for channel_id in channels" from the
\* iteration over iter_messages on, for the channels k, k+1, ...
RECURSIVE ClientCollect(_, _, _, _)
ClientCollect(chs, k, acc, limit) ==
    IF k > Len(chs) THEN acc
    ELSE LET it == ClientIterate(chs[k].units,
                                 [messages |-> <<>>, seen_texts |-> {},
                                  total_chars |-> acc.total_chars,
                                  broke |-> FALSE, rejected |-> FALSE],
                                 Now - DEFAULT_LOOKBACK_HOURS, limit)
             acc1 == [result |-> IF it.messages # <<>>
                                 THEN Put(acc.result, chs[k].name,
                                          Texts(it.messages))
                                 ELSE acc.result,
                      total_chars |-> it.total_chars]
         IN  IF it.total_chars > limit THEN acc1
             ELSE ClientCollect(chs, k + 1, acc1, limit)

BudgetInit ==
    /\ bp_in \in BudgetInputs
    /\ bp_done = {}
    /\ bp_scrape = NoOutcome /\ bp_client = NoOutcome
    /\ ClIdle /\ CkIdle /\ CoIdle /\ ScIdle /\ RnIdle

\* the scrape variant's collect_messages on the input
BudgetScrape ==
    /\ "scrape" \notin bp_done
    /\ bp_scrape' = ScrapeCollect(bp_in.channels, 1, NoOutcome, TokenLimit(bp_in))
    /\ bp_done' = bp_done \cup {"scrape"}
    /\ UNCHANGED <<bp_in, bp_client, cl_vars, ck_vars, co_vars, sc_vars, rn_vars>>

\* the client variant's collect_messages on the input
BudgetClient ==
    /\ "client" \notin bp_done
    /\ bp_client' = ClientCollect(bp_in.channels, 1, NoOutcome, TokenLimit(bp_in))
    /\ bp_done' = bp_done \cup {"client"}
    /\ UNCHANGED <<bp_in, bp_scrape, cl_vars, ck_vars, co_vars, sc_vars, rn_vars>>

BudgetNext ==
    \/ BudgetScrape
    \/ BudgetClient

SpecBudget == BudgetInit /\ [][BudgetNext]_vars

(***************************************************************************)
(* Specification SpecRun: main, run_digest and send_to_telegram            *)
(*                                                                         *)
(* collect_messages and summarize are the calls the other specifications   *)
(* and the provider decide: here they are steps that touch the network and *)
(* come back with one of their possible outcomes.                          *)
(***************************************************************************)
MaxSummaryLines == 3

\* the flags each script's main() looks for (Usage in the module docstring)
Flags(v) ==
    IF v = "scrape" THEN {"--help", "--preview", "--dry-run"}
    ELSE {"--auth", "--dry-run", "--help"}

\* main(): the if/elif chain over sys.argv
main_mode(v, argv) ==
    IF v = "scrape"
    THEN IF "--help" \in argv THEN "help"
         ELSE IF "--preview" \in argv THEN "preview"
         ELSE IF "--dry-run" \in argv THEN "dry_run"
         ELSE "full"
    ELSE IF "--auth" \in argv THEN "auth"
         ELSE IF "--dry-run" \in argv THEN "dry_run"
         ELSE IF "--help" \in argv THEN "help"
         ELSE "full"

\* the settings: env vars that are set (non-empty, non-zero), the channel
\* config file that exists, its list "channels" that is not empty
EnvFields ==
    {"GOOGLE_API_KEY", "API_ID_HASH", "CHANNELS_CONFIG", "channels",
     "BOT_TOKEN", "GROUP_ID", "DIGEST_TOPIC_ID"}

\* run_digest up to the call of collect_messages: the checks of the API
\* credentials, load_config() and the check of the channel list.
\* "exit1" is sys.exit(1).
StartChecks(v, mode, env) ==
    IF v = "client" /\ ~env["API_ID_HASH"] THEN "exit1"
    ELSE IF v = "client" /\ ~env["GOOGLE_API_KEY"] THEN "exit1"
    ELSE IF v = "scrape" /\ mode # "preview" /\ ~env["GOOGLE_API_KEY"] THEN "exit1"
    ELSE IF ~env["CHANNELS_CONFIG"] THEN "exit1"
    ELSE IF ~env["channels"] THEN "exit1"
    ELSE "collect"

\* mutant of NoticeSent: the test of the preview flag is missing
NoticeSentUnlessDryRun(mode) == mode # "dry_run"

\* "if not dry_run and not preview" (scrape), "if not dry_run" (client): the
\* "No new messages" notice is sent
NoticeSent(mode) == mode # "dry_run" /\ mode # "preview"

\* run_digest after collect_messages: where it goes and what it sends
AfterCollect(mode, outcome) ==
    IF outcome = "raised" THEN [pc |-> "raised", text |-> "none"]
    ELSE IF outcome = "empty"
         THEN IF NoticeSent(mode) THEN [pc |-> "send", text |-> "notice"]
              ELSE [pc |-> "returned", text |-> "none"]
    ELSE IF mode = "preview" THEN [pc |-> "returned", text |-> "none"]
    ELSE [pc |-> "summarize", text |-> "none"]

\* mutant of AfterSummarize: a failure of the summarizer is swallowed
AfterSummarizeSwallow(mode, outcome) ==
    IF mode = "dry_run" THEN [pc |-> "returned", text |-> "none"]
    ELSE [pc |-> "send", text |-> "summary"]

\* run_digest after summarize: an exception of summarize leaves run_digest
AfterSummarize(mode, outcome) ==
    IF outcome = "failed" THEN [pc |-> "raised", text |-> "none"]
    ELSE IF mode = "dry_run" THEN [pc |-> "returned", text |-> "none"]
    ELSE [pc |-> "send", text |-> "summary"]

\* send_to_telegram: "if not BOT_TOKEN or not GROUP_ID or not DIGEST_TOPIC_ID"
DeliveryConfigured(env) ==
    env["BOT_TOKEN"] /\ env["GROUP_ID"] /\ env["DIGEST_TOPIC_ID"]

\* the fixed text run_digest sends when nothing was collected (61 and 54
\* characters, no newline)
Notice(v) == IF v = "scrape" THEN <<R("n", 61)>> ELSE <<R("n", 54)>>

\* summaries of 1..MaxSummaryLines lines of 4000 characters, and a short one
RECURSIVE SummaryOf(_)
SummaryOf(k) ==
    IF k = 1 THEN <<R("a", 4000)>>
    ELSE Concat(SummaryOf(k - 1), <<R(NL, 1), R("a", 4000)>>)

Summaries == { <<R("a", 100)>> } \cup { SummaryOf(k) : k \in 1..MaxSummaryLines }

\* one pass of "for i, chunk in enumerate(chunks)" with the outcome res of
\* urlopen: "ok" ({"ok": true}), "api_error" (a response without "ok"),
\* "raised" (urlopen or json.loads raises).  k is i + 1, n is len(chunks).
SendNext(res, k, n) ==
    IF res = "raised" THEN "raised"
    ELSE IF k = n THEN "returned"
    ELSE "sending"

RunInit ==
    /\ rn_pc = "main"
    /\ rn_variant \in {"scrape", "client"}
    /\ rn_argv \in SUBSET Flags(rn_variant)
    /\ rn_env \in [EnvFields -> BOOLEAN]
    /\ (rn_variant = "scrape" => rn_env["API_ID_HASH"])
    /\ rn_mode = "none" /\ rn_net = {} /\ rn_summ = "none" /\ rn_text = "none"
    /\ rn_chunks = <<>> /\ rn_sent = <<>>
    /\ ClIdle /\ CkIdle /\ CoIdle /\ ScIdle /\ BpIdle

\* main() and run_digest up to collect_messages (or run_auth's check)
RunMain ==
    /\ rn_pc = "main"
    /\ rn_mode' = main_mode(rn_variant, rn_argv)
    /\ rn_pc' = IF rn_mode' = "help" THEN "returned"
                ELSE IF rn_mode' = "auth"
                     THEN (IF rn_env["API_ID_HASH"] THEN "auth" ELSE "exit1")
                ELSE StartChecks(rn_variant, rn_mode', rn_env)
    /\ UNCHANGED <<rn_variant, rn_argv, rn_env, rn_net, rn_summ, rn_text,
                   rn_chunks, rn_sent, cl_vars, ck_vars, co_vars, sc_vars, bp_vars>>

\* client: run_auth after its check: client.start(), get_me(), disconnect()
RunAuth ==
    /\ rn_pc = "auth"
    /\ rn_net' = rn_net \cup {"source"}
    /\ \E ok \in BOOLEAN : rn_pc' = IF ok THEN "returned" ELSE "raised"
    /\ UNCHANGED <<rn_variant, rn_argv, rn_env, rn_mode, rn_summ, rn_text,
                   rn_chunks, rn_sent, cl_vars, ck_vars, co_vars, sc_vars, bp_vars>>

\* (client: client.start(), then) collect_messages, and what run_digest does
\* with its result
RunCollect ==
    /\ rn_pc = "collect"
    /\ rn_net' = rn_net \cup {"source"}
    /\ \E outcome \in {"empty", "messages", "raised"} :
         LET next == AfterCollect(rn_mode, outcome)
         IN  /\ (outcome = "raised" => rn_variant = "client")
             /\ rn_pc' = next.pc
             /\ rn_text' = next.text
    /\ UNCHANGED <<rn_variant, rn_argv, rn_env, rn_mode, rn_summ,
                   rn_chunks, rn_sent, cl_vars, ck_vars, co_vars, sc_vars, bp_vars>>

\* summary = summarize(channel_messages), and what run_digest does next
RunSummarize ==
    /\ rn_pc = "summarize"
    /\ rn_net' = rn_net \cup {"summarizer"}
    /\ \E outcome \in {"ok", "failed"} :
         LET next == AfterSummarize(rn_mode, outcome)
         IN  /\ rn_summ' = outcome
             /\ rn_pc' = next.pc
             /\ rn_text' = next.text
    /\ UNCHANGED <<rn_variant, rn_argv, rn_env, rn_mode,
                   rn_chunks, rn_sent, cl_vars, ck_vars, co_vars, sc_vars, bp_vars>>

\* send_to_telegram(text) up to its sending loop: the check of the delivery
\* settings and the chunking
RunSendStart ==
    /\ rn_pc = "send"
    /\ IF ~DeliveryConfigured(rn_env)
       THEN rn_pc' = "exit1" /\ rn_chunks' = rn_chunks
       ELSE \E text \in (IF rn_text = "notice" THEN {Notice(rn_variant)}
                          ELSE Summaries) :
              /\ rn_chunks' = Chunks(Header(rn_variant), text)
              /\ rn_pc' = IF rn_chunks' = <<>> THEN "returned" ELSE "sending"
    /\ UNCHANGED <<rn_variant, rn_argv, rn_env, rn_mode, rn_net, rn_summ, rn_text,
                   rn_sent, cl_vars, ck_vars, co_vars, sc_vars, bp_vars>>

\* one pass of the sending loop: the urlopen call for the next chunk
RunSendChunk ==
    /\ rn_pc = "sending"
    /\ rn_net' = rn_net \cup {"delivery"}
    /\ \E res \in {"ok", "api_error", "raised"} :
         LET k == Len(rn_sent) + 1
         IN  /\ rn_sent' = Append(rn_sent, [chunk |-> rn_chunks[k], res |-> res])
             /\ rn_pc' = SendNext(res, k, Len(rn_chunks))
    /\ UNCHANGED <<rn_variant, rn_argv, rn_env, rn_mode, rn_summ, rn_text,
                   rn_chunks, cl_vars, ck_vars, co_vars, sc_vars, bp_vars>>

RunNext ==
    \/ RunMain
    \/ RunAuth
    \/ RunCollect
    \/ RunSummarize
    \/ RunSendStart
    \/ RunSendChunk

SpecRun == RunInit /\ [][RunNext]_vars

(***************************************************************************)
(* Properties of collect_messages (specification Spec)                     *)
(***************************************************************************)
RECURSIVE SumSeq(_)
SumSeq(ns) == IF ns = <<>> THEN 0 ELSE Head(ns) + SumSeq(Tail(ns))

RECURSIVE SumOver(_, _)
SumOver(map, keys) ==
    IF keys = {} THEN 0
    ELSE LET k == CHOOSE x \in keys : TRUE
         IN  SumSeq([j \in 1..Len(map[k]) |-> StrLen(map[k][j])])
             + SumOver(map, keys \ {k})

\* sum of len(m) over all messages m stored in the mapping
ResultChars(map) == SumOver(map, DOMAIN map)

\* position k of the configured list names no channel (scrape: "if not channel")
BlankChannel(k) ==
    variant = "scrape" /\ ScrapeChannelName(config.channels[k]) = EmptyStr

\* C1: in both variants the running total never exceeds the ceiling
\* C = maxTotalTokens * 4, and the lengths of all messages stored in the
\* result mapping sum to at most C (in every state, so also at return).
C1_BudgetNeverExceeded ==
    /\ total_chars <= TokenLimit(config)
    /\ ResultChars(result) <= TokenLimit(config)

\* C1 witness: collection has returned after a budget rejection, with the
\* stored messages filling the ceiling exactly.
C1_Witness ==
    /\ returned
    /\ rejected_at # 0
    /\ ResultChars(result) = TokenLimit(config)

\* C2: once a message has been rejected for the budget, no channel later in
\* configured order is processed: the source is asked about no channel after
\* the one of the first rejection.
C2_RejectionStopsRun ==
    rejected_at # 0 => \A k \in visited : k <= rejected_at

\* C3: within one channel the accepted messages are exactly the longest prefix
\* of the offered cleaned messages that fits: every accepted message keeps
\* total <= ceiling (reaching the ceiling exactly is accepted), and if a message
\* was left out, the first one left out would have exceeded the ceiling.
C3_GreedyPrefix ==
    LET n == Len(last.accepted)
        after == last.before + SumSeq(last.accepted)
    IN  /\ n <= Len(last.offered)
        /\ last.accepted = SubSeq(last.offered, 1, n)
        /\ after <= TokenLimit(config)
        /\ n < Len(last.offered) => after + last.offered[n + 1] > TokenLimit(config)

\* C3 witness: a channel whose first left-out message did not fit, while a later
\* message of the same channel would have fitted and was dropped all the same.
C3_Witness ==
    LET n == Len(last.accepted)
        after == last.before + SumSeq(last.accepted)
    IN  \E k \in (n + 2)..Len(last.offered) :
            after + last.offered[k] <= TokenLimit(config)

\* C4: no message whose timestamp is earlier than cutoff = now - lookbackHours
\* is in the collection result.
C4_NothingBeforeCutoff ==
    \A name \in DOMAIN origin : \A k \in 1..Len(origin[name]) :
        origin[name][k].date >= Now - config.lookbackHours

\* C4 witness: the cutoff test has met a unit older than the cutoff, and the
\* result holds a message dated exactly at the cutoff.
C4_Witness ==
    /\ old_seen
    /\ returned
    /\ \E name \in DOMAIN origin : \E k \in 1..Len(origin[name]) :
           origin[name][k].date = Now - config.lookbackHours

\* the dedup key the specification describes: the first 100 characters of the
\* text before cleaning, whitespace collapsed, lowercased
NormalizedKey(text) ==
    Lower(Strip(CollapseWhitespace(Take(Strip(text), DEDUP_PREFIX))))

\* C5: no two entries of one channel's digest come from texts with the same
\* normalized dedup key (of two such messages only the first is kept).
C5_NoDuplicateKeyInChannel ==
    \A name \in DOMAIN origin : \A j, k \in 1..Len(origin[name]) :
        j # k => NormalizedKey(origin[name][j].text) # NormalizedKey(origin[name][k].text)

\* C6 as claimed: the same dedup key never occurs in the digests of two
\* different channels of one result.
C6_NoDuplicateKeyAcrossChannels ==
    \A n1, n2 \in DOMAIN origin :
        n1 # n2 =>
            \A j \in 1..Len(origin[n1]) : \A k \in 1..Len(origin[n2]) :
                NormalizedKey(origin[n1][j].text) # NormalizedKey(origin[n2][k].text)

\* C6 amended: deduplication is per channel only: within one channel's digest
\* no two entries come from texts whose first 100 characters are equal after
\* lowercasing.
C6_NoDuplicatePrefixInChannel ==
    \A name \in DOMAIN origin : \A j, k \in 1..Len(origin[name]) :
        j # k => Lower(Take(Strip(origin[name][j].text), DEDUP_PREFIX))
                 # Lower(Take(Strip(origin[name][k].text), DEDUP_PREFIX))

\* C6 witness: collection has returned a result in which a message whose key
\* was accepted for one channel has been accepted again for another channel.
C6_Witness ==
    /\ returned
    /\ \E n1, n2 \in DOMAIN origin :
           /\ n1 # n2
           /\ \E j \in 1..Len(origin[n1]) : \E k \in 1..Len(origin[n2]) :
                  origin[n1][j].text = origin[n2][k].text

\* C10: a failure confined to one channel never aborts the run: the run does
\* not end by an exception, and when it returns every configured channel has
\* been processed.
C10_ChannelFailureNeverAborts ==
    /\ pc # "raised"
    /\ returned => \A k \in 1..NumChannels : k \in visited \/ BlankChannel(k)

\* C17: every key of the result maps to a non-empty list, in every state of
\* the collection; the result changes only by one key receiving the non-empty
\* list accepted for the channel just processed, so a channel of which nothing
\* was accepted adds no key.
C17_NoEmptyDigest ==
    /\ [](\A name \in DOMAIN result : result[name] # <<>>)
    /\ [][result' # result =>
             /\ last'.accepted # <<>>
             /\ \E name \in DOMAIN result' :
                    /\ Len(result'[name]) = Len(last'.accepted)
                    /\ \A other \in DOMAIN result' \ {name} :
                           other \in DOMAIN result /\ result'[other] = result[other]
         ]_vars

\* C17 witness: the run returned; of the last channel messages were offered
\* and none was accepted (budget exhausted); it is not a key of the result,
\* which holds another channel.
C17_Witness ==
    /\ pc = "done"
    /\ last.offered # <<>> /\ last.accepted = <<>>
    /\ Cardinality(visited) = 2
    /\ Cardinality(DOMAIN result) = 1
    /\ \A name \in DOMAIN result : result[name] # <<>>

(***************************************************************************)
(* Properties of clean_text (specification SpecClean)                      *)
(***************************************************************************)
\* C7: the output of clean_text has length at most MAX_MSG_LENGTH and contains
\* no run of 2 or more spaces and no run of 3 or more newlines.
C7_CleanedBounded ==
    cl_pc = "out" =>
        /\ StrLen(cl_out) <= MAX_MSG_LENGTH
        /\ MaxRun(cl_out, " ") < 2
        /\ MaxRun(cl_out, NL) < 3

\* C25: after each channel is finished and at return, the running total is
\* the sum of the lengths of the messages stored in the result, also when two
\* configured channels have the same result key.
C25_TotalIsSumOfResult ==
    pc \in {"loop", "done"} => total_chars = ResultChars(result)

\* C24: clean_text is idempotent: cleaning a cleaned text changes nothing,
\* also when the first cleaning truncated the text and appended the ellipsis.
C24_CleanIdempotent ==
    cl_pc = "out" => clean_text(cl_out) = cl_out

(***************************************************************************)
(* Properties of the chunking of send_to_telegram (specification SpecChunk)*)
(***************************************************************************)
RECURSIVE JoinAll(_)
JoinAll(chunks) ==
    IF chunks = <<>> THEN EmptyStr ELSE Concat(Head(chunks), JoinAll(Tail(chunks)))

\* s begins with prefix
StartsWith(s, prefix) == Take(s, StrLen(prefix)) = prefix

\* number of occurrences of the character ch in s
RECURSIVE CountChar(_, _)
CountChar(s, ch) ==
    IF s = <<>> THEN 0
    ELSE (IF Head(s).c = ch THEN Head(s).n ELSE 0) + CountChar(Tail(s), ch)

\* C8: every chunk has length at most TG_MAX_MESSAGE_LENGTH, whatever the
\* lengths of the lines; a 9000-character text gives at least 3 chunks, the
\* first starting with the header.
C8_ChunksBounded ==
    ck_pc = "chunked" =>
        /\ \A k \in 1..Len(ck_chunks) : StrLen(ck_chunks[k]) <= TG_MAX_MESSAGE_LENGTH
        /\ StrLen(ck_text) = 9000 =>
               /\ Len(ck_chunks) >= 3
               /\ StartsWith(ck_chunks[1], Header(ck_variant))

\* C9 as claimed: the chunks concatenated in order are exactly the header
\* followed by the original text.
C9_RoundTripExact ==
    ck_pc = "chunked" => JoinAll(ck_chunks) = Concat(Header(ck_variant), ck_text)

\* C9 amended: the header occurs once, at the start of the first chunk.  A text
\* that fits in one chunk is returned as header + text.  A text that is split
\* comes back, header removed, as a prefix of text + "\n" (one newline is added
\* after the last line), and what is missing at the end is whitespace only (the
\* final chunk, dropped when it is blank).
C9_RoundTripUpToBlankTail ==
    ck_pc = "chunked" =>
        LET header == Header(ck_variant)
            joined == JoinAll(ck_chunks)
            body == Drop(joined, StrLen(header))
            full == Concat(ck_text, <<R(NL, 1)>>)
        IN  /\ Len(ck_chunks) >= 1
            /\ StartsWith(ck_chunks[1], header)
            /\ CountChar(joined, "h") = CountChar(header, "h")
            /\ IF StrLen(header) + StrLen(ck_text) <= TG_MAX_MESSAGE_LENGTH
               THEN ck_chunks = <<Concat(header, ck_text)>>
               ELSE /\ Take(full, StrLen(body)) = body
                    /\ Strip(Drop(full, StrLen(body))) = EmptyStr

\* C9 witness: a text was split into several chunks and its blank final chunk
\* was dropped, so that non-newline characters of the text are missing.
C9_Witness ==
    /\ ck_pc = "chunked"
    /\ Len(ck_chunks) >= 2
    /\ StrLen(JoinAll(ck_chunks)) < StrLen(Header(ck_variant)) + StrLen(ck_text)

(***************************************************************************)
(* Properties of fetch_page and of the pagination loop (specification      *)
(* SpecDeep)                                                               *)
(***************************************************************************)
\* C11 as claimed: every page fetch that fails transiently (rate-limit status
\* or network error) is retried exactly once after the backoff delay.
C11_TransientRetriedOnce ==
    sc_last.o[1] \in {"429", "request_error"} =>
        sc_last.requests = 2 /\ sc_last.retry_sleep

\* C11 amended: only a rate-limit status (429) is retried, exactly once and
\* after the RETRY_SLEEP delay, so a page takes one or two requests; any other
\* failure is not retried.  The fetch succeeds iff the first request succeeds
\* or the first is rate-limited and the second succeeds.  When the fetch
\* fails, pagination of the channel ends and scrape_channel returns the
\* messages collected from the pages fetched before.
C11_RateLimitRetriedOnce ==
    [][pc = "paging" =>
         /\ sc_last'.requests \in {1, 2}
         /\ (sc_last'.requests = 2) = (sc_last'.o[1] = "429")
         /\ sc_last'.retry_sleep = (sc_last'.o[1] = "429")
         /\ sc_last'.ok = (sc_last'.o[1] = "ok" \/ sc_last'.o = <<"429", "ok">>)
         /\ ~sc_last'.ok =>
                /\ pc' # "paging"
                /\ last'.offered =
                       Lengths(ScrapeTail(all_messages, config.maxMessagesPerChannel))
      ]_vars

\* C11 witness: on a page after the first, the request was rate-limited, the
\* retry failed too, and scrape_channel returned messages of earlier pages.
C11_Witness ==
    /\ sc_last.o[1] = "429" /\ sc_last.o[2] # "ok"
    /\ sc_last.requests = 2
    /\ sc_last.page >= 1
    /\ pc # "paging"
    /\ last.offered # <<>>

\* C16: in both variants the digest of each channel holds at most
\* maxMessagesPerChannel messages, and so does what the last channel offered
\* to the budget and what was accepted of it.
C16_ChannelCapHonoured ==
    /\ \A name \in DOMAIN result :
           Len(result[name]) <= config.maxMessagesPerChannel
    /\ Len(last.offered) <= config.maxMessagesPerChannel
    /\ Len(last.accepted) <= config.maxMessagesPerChannel

\* C16 witness: scrape_channel had collected more messages than the cap when
\* its pagination ended, and the channel's digest holds exactly the cap.
C16_Witness ==
    /\ variant = "scrape"
    /\ pc # "paging"
    /\ sc_last.ok
    /\ sc_last.n > config.maxMessagesPerChannel
    /\ Len(last.accepted) = config.maxMessagesPerChannel
    /\ \E name \in DOMAIN result :
           Len(result[name]) = config.maxMessagesPerChannel

\* C18: the stop on a page without new identities looks at identities only.
\* After a page that was received, was not the "unavailable" page and held an
\* identity that no earlier page of the channel held, pagination goes on to
\* the next page, unless the cap is reached or the page was the last allowed.
\* Stated for the pages after the first: on the first page scrape_channel
\* takes an empty parse for a channel without preview.
C18_StopOnIdentitiesOnly ==
    (/\ sc_last.page >= 1
     /\ sc_last.ok
     /\ ~sc_last.html.unavailable
     /\ PageIds(sc_last.html) \ sc_ids # {}
     /\ sc_last.n < config.maxMessagesPerChannel
     /\ sc_last.page < MAX_PAGES_PER_CHANNEL - 1)
    => pc = "paging"

\* the smallest element of a non-empty set of integers
MinOf(S) == CHOOSE x \in S : \A y \in S : x <= y

\* C19: the token passed to each fetch after the first is the smallest
\* identity seen on all the pages fetched so far for the channel.
C19_TokenIsOldestSeen ==
    (pc = "paging" /\ page > 0) =>
        before = MinOf(sc_ids \cup PageIds(sc_last.html))

\* a measure of what collect_messages has left to do: the channels not yet
\* finished, each worth more than the fetches of one channel, less the
\* fetches already made for the current channel
C20_Measure ==
    IF pc \in {"done", "raised"} THEN 0
    ELSE (NumChannels + 1 - ci) * (MAX_PAGES_PER_CHANNEL + 2) + 1
         - (IF pc = "paging" THEN page + 1 ELSE 0)

\* C20: scrape_channel fetches at most MAX_PAGES_PER_CHANNEL pages for a
\* channel (the fetches are numbered 0 .. MAX_PAGES_PER_CHANNEL - 1, each
\* number is used once), collect_messages visits the channels in order and
\* each at most once, and every step uses up the measure, which is never
\* negative: the collection terminates, whatever the source answers.
C20_BoundedPagesAndVisits ==
    /\ [](/\ page \in 0..(MAX_PAGES_PER_CHANNEL - 1)
          /\ sc_last.page \in 0..(MAX_PAGES_PER_CHANNEL - 1)
          /\ \A k \in visited : k < ci \/ (k = ci /\ pc # "loop"))
    /\ [][/\ C20_Measure' < C20_Measure
          /\ C20_Measure' >= 0
          /\ ci' \in {ci, ci + 1}
          /\ (pc = "paging" /\ pc' = "paging") => (page' = page + 1 /\ ci' = ci)
          /\ (pc = "loop" /\ pc' = "paging") => (page' = 0 /\ ci \notin visited)
         ]_vars

\* C20 witness: the fifth fetch of a channel succeeded and brought a new
\* message, the cap was not reached, and the pagination ended all the same.
C20_Witness ==
    /\ variant = "scrape"
    /\ sc_last.page = MAX_PAGES_PER_CHANNEL - 1
    /\ sc_last.ok
    /\ sc_last.n = MAX_PAGES_PER_CHANNEL
    /\ sc_last.n < config.maxMessagesPerChannel
    /\ pc # "paging"

\* a unit the filters discard: noise (client variant), no text or only
\* whitespace, or a text shorter than MIN_MSG_LENGTH
Discarded(u) ==
    \/ (variant = "client" /\ is_noise(u))
    \/ Strip(u.text) = EmptyStr
    \/ StrLen(Strip(u.text)) < MIN_MSG_LENGTH

\* no entry of a digest is the empty string or comes from a discarded unit
NoDiscardedEntry ==
    \A name \in DOMAIN result :
        \A k \in 1..Len(result[name]) :
            /\ result[name][k] # EmptyStr
            /\ ~Discarded(origin[name][k])

\* C23: no entry of a digest is the empty string or comes from a unit that is
\* noise, has no text or has a text shorter than MIN_MSG_LENGTH; and such
\* units do not stop the collection of later units of the channel: after a
\* page after the first whose posts are all new, in range and without text,
\* the pagination goes on (the cap is not reached, pages are left).
C23_DiscardedNeverStops ==
    /\ NoDiscardedEntry
    /\ (/\ sc_last.page >= 1
        /\ sc_last.ok
        /\ sc_last.html.widgets # <<>>
        /\ \A k \in 1..Len(sc_last.html.widgets) :
               LET w == sc_last.html.widgets[k]
               IN  /\ w.id \notin sc_ids \cup {NoneInt}
                   /\ w.date # NoneInt /\ ~BeforeCutoff(w.date, Cutoff(config))
                   /\ Strip(w.text) = EmptyStr
        /\ sc_last.n < config.maxMessagesPerChannel
        /\ sc_last.page < MAX_PAGES_PER_CHANNEL - 1)
       => pc = "paging"

(***************************************************************************)
(* Properties of the sort and of the pauses (specification SpecPaced)      *)
(***************************************************************************)
\* the dates of a list are in non-increasing order
NonIncreasing(ds) == \A k \in 1..(Len(ds) - 1) : ds[k] >= ds[k + 1]

\* C21: scrape variant: every channel's digest is in non-increasing timestamp
\* order, whatever the order of the pages and of the messages on them; and
\* when scrape_channel returns, each entry of the channel's digest is among
\* the cap newest of the messages collected: fewer than cap collected
\* messages are newer than it.
C21_SortedBeforeTruncation ==
    /\ [](\A name \in DOMAIN origin : NonIncreasing(Dates(origin[name])))
    /\ [][(pc = "paging" /\ pc' # "paging" /\ result' # result) =>
             LET digest == origin'[channel]
             IN  \A k \in 1..Len(digest) :
                     Cardinality({ j \in 1..Len(sc_dates') :
                                     sc_dates'[j] > digest[k].date })
                         < config.maxMessagesPerChannel
         ]_vars

\* C21 witness: more messages than the cap were collected, the oldest first,
\* and the digest holds cap messages beginning with the newest collected.
C21_Witness ==
    /\ pc # "paging"
    /\ sc_last.ok
    /\ Len(sc_dates) > config.maxMessagesPerChannel
    /\ sc_dates[1] < sc_dates[Len(sc_dates)]
    /\ \E name \in DOMAIN origin :
           /\ Len(origin[name]) = config.maxMessagesPerChannel
           /\ \A j \in 1..Len(sc_dates) : origin[name][1].date >= sc_dates[j]
           /\ \E j \in 1..Len(sc_dates) :
                  origin[name][Len(origin[name])].date > sc_dates[j]

\* C22: scrape variant: every request to the source except the first of the
\* run comes after a pause made since the previous request: the delay before
\* a later page of the channel or before the next channel, or the backoff
\* before the second attempt of a page.  The channels are fetched one after
\* another: the requests of a fetch are for the channel the loop is at.
C22_RequestsArePaced ==
    /\ sc_last.requests >= 1 =>
           /\ sc_last.first \/ sc_last.paused
           /\ sc_last.page > 0 => sc_last.paused
           /\ sc_last.first => sc_last.page = 0
           /\ sc_last.requests = 2 => sc_last.retry_sleep
    /\ sc_requested = (sc_last.requests >= 1 \/ visited # {})
    /\ pc = "paging" =>
           /\ ci <= NumChannels
           /\ channel = ScrapeChannelName(config.channels[ci])
           /\ \A k \in visited : k <= ci

\* C22 witness: the first fetch of a later channel, after a request was made
\* for an earlier one: it came after the pause between channels, was answered
\* 429 and was repeated after the backoff.
C22_Witness ==
    /\ sc_last.requests = 2
    /\ sc_last.retry_sleep
    /\ sc_last.page = 0
    /\ ~sc_last.first
    /\ sc_last.paused
    /\ Cardinality(visited) = 2

(***************************************************************************)
(* Equivalence of the budget policy of the two variants (specification     *)
(* SpecBudget)                                                             *)
(***************************************************************************)
\* C26: on the same channels with the same messages and the same ceiling, the
\* scrape variant (budget applied to the list scrape_channel returned) and
\* the client variant (budget applied while iterating) return the same result
\* mapping and end with the same running total.
C26_SameBudgetPolicy ==
    bp_done = {"scrape", "client"} =>
        /\ bp_scrape.result = bp_client.result
        /\ bp_scrape.total_chars = bp_client.total_chars

\* C26 witness: both variants have run; a message of the first channel was
\* rejected (it holds two messages, one is stored, and the two together are
\* over the ceiling), and a message of the second channel was accepted
\* after that and fills the ceiling.
C26_Witness ==
    /\ bp_done = {"scrape", "client"}
    /\ Len(bp_in.channels) = 2
    /\ bp_in.channels[1].name # bp_in.channels[2].name
    /\ Len(bp_in.channels[1].units) = 2
    /\ Len(bp_scrape.result[bp_in.channels[1].name]) = 1
    /\ StrLen(bp_in.channels[1].units[1].text)
         + StrLen(bp_in.channels[1].units[2].text) > TokenLimit(bp_in)
    /\ bp_in.channels[2].name \in DOMAIN bp_client.result
    /\ bp_client.total_chars = TokenLimit(bp_in)

(***************************************************************************)
(* Properties of main, run_digest and send_to_telegram (specification      *)
(* SpecRun)                                                                *)
(***************************************************************************)
\* the settings a run in the given mode needs
Required(v, mode) ==
    CASE mode = "help" -> {}
      [] mode = "auth" -> {"API_ID_HASH"}
      [] mode = "preview" -> {"CHANNELS_CONFIG", "channels"}
      [] mode = "dry_run" ->
            {"CHANNELS_CONFIG", "channels", "GOOGLE_API_KEY"}
            \cup (IF v = "client" THEN {"API_ID_HASH"} ELSE {})
      [] OTHER ->
            {"CHANNELS_CONFIG", "channels", "GOOGLE_API_KEY",
             "BOT_TOKEN", "GROUP_ID", "DIGEST_TOPIC_ID"}
            \cup (IF v = "client" THEN {"API_ID_HASH"} ELSE {})

\* C12: when a setting the run requires is absent (summarizer API key, channel
\* config or channel list, bot token, group id or topic id), the run makes no
\* network call at all: no source fetch, no summarizer call, no delivery call.
C12_ConfigMissingNoNetwork ==
    (/\ rn_mode # "none"
     /\ \E f \in Required(rn_variant, rn_mode) : ~rn_env[f])
    => rn_net = {}

\* C13: if the summarizer call fails the run ends with that failure and no
\* delivery call is made; every delivery of a chunk of the digest comes after
\* a successful return of summarize in the same run.
C13_NoDeliveryAfterSummarizerFailure ==
    /\ rn_summ = "failed" =>
           /\ rn_pc = "raised"
           /\ rn_sent = <<>> /\ rn_chunks = <<>> /\ "delivery" \notin rn_net
    /\ (rn_text = "summary" /\ rn_pc \in {"send", "sending"}) => rn_summ = "ok"
    /\ (rn_text = "summary" /\ rn_sent # <<>>) => rn_summ = "ok"

\* C13 witness: a full run with every setting present whose summarizer call
\* failed.
C13_Witness ==
    /\ rn_summ = "failed"
    /\ rn_mode = "full"
    /\ \A f \in EnvFields : rn_env[f]

\* C14: chunks are sent in their produced order, and a failure on a chunk (an
\* exception, or a response reporting an error) is re-raised: the failed chunk
\* is the last one sent and the run ends by the exception.
C14_FailureStopsSending ==
    \A j \in 1..Len(rn_sent) :
        /\ rn_sent[j].chunk = rn_chunks[j]
        /\ rn_sent[j].res # "ok" => (j = Len(rn_sent) /\ rn_pc = "raised")

\* C15: with --preview neither the summarizer nor the delivery is called; with
\* --dry-run the delivery is never called; only a full run calls the delivery
\* (or gets as far as send_to_telegram).
C15_ModesRestrictCalls ==
    /\ rn_mode = "preview" =>
           "summarizer" \notin rn_net /\ "delivery" \notin rn_net
    /\ rn_mode = "dry_run" => "delivery" \notin rn_net
    /\ ("delivery" \in rn_net \/ rn_pc \in {"send", "sending"}) => rn_mode = "full"
    /\ (rn_mode # "none" /\ "--preview" \in rn_argv) => rn_mode \in {"help", "preview"}
    /\ (rn_mode # "none" /\ "--dry-run" \in rn_argv) => rn_mode # "full"

\* C15 witness: a preview run that collected nothing and returned.
C15_Witness ==
    /\ rn_mode = "preview"
    /\ "source" \in rn_net
    /\ rn_text = "none"
    /\ rn_pc = "returned"

====
